---- MODULE Spec2Model ----
(***************************************************************************)
(* Model of FN::MF_EvaluateNetwork (functions/intern/multi_functions/      *)
(* network.cc): the demand-driven evaluation of a multi-function network.  *)
(* One behaviour is one call of MF_EvaluateNetwork::call on one network,   *)
(* one mask and one set of caller arguments.                               *)
(***************************************************************************)
EXTENDS Integers, Sequences, FiniteSets, TLC

VARIABLES
  net,            \* the network handed to the engine (index into Networks)
  mask,           \* MFMask: the set of active indices
  params,         \* caller arguments: [ins |-> buffer ids, outs |-> buffer ids]
  heap,           \* every buffer that exists: id -> [kind, data]
  created,        \* TRUE once Storage storage(mask) was constructed
  storage,        \* Storage: input socket -> [kind, buf]
  m_arrays,       \* Storage::m_arrays (registered single arrays)
  m_vector_arrays,\* Storage::m_vector_arrays (registered vector arrays)
  sockets_to_compute, \* the work stack, top is the last element
  pc,             \* position in call()
  invoked,        \* history: node -> number of function.call invocations
  allocs,         \* history: buffer id -> [by, why, socket] for each allocation
  released,       \* history: buffer ids released by ~Storage, in order
  faults,         \* history: the assertions that failed
  last,           \* history: the last step of the traversal loop
  peer            \* the locals of a second call on the same network, suspended

vars == <<net, mask, params, heap, created, storage, m_arrays, m_vector_arrays,
          sockets_to_compute, pc, invoked, allocs, released, faults, last,
          peer>>

\* ---------------------------------------------------------------- bounds
BatchSize == 3
MaxBase == 1
MaxStack == 12

Indices == 0 .. (BatchSize - 1)

\* ------------------------------------------------------- leaf functions
\* Parameter categories of MFParamType.
RS == "ReadonlySingleInput"
RV == "ReadonlyVectorInput"
SO == "SingleOutput"
VO == "VectorOutput"
MV == "MutableVector"

InputCats == {RS, RV, MV}
OutputCats == {SO, VO, MV}

\* function.param_type(param_index) for the leaf functions of the networks.
Signature(fun) ==
  CASE fun = "AddOne"  -> <<RS, SO>>
    [] fun = "Double"  -> <<RS, SO>>
    [] fun = "Add"     -> <<RS, RS, SO>>
    [] fun = "Split"   -> <<RS, SO, SO>>
    [] fun = "MakeVec" -> <<RS, VO>>
    [] fun = "Append"  -> <<MV, RS>>
    [] fun = "Push7"   -> <<MV>>
    [] fun = "Len"     -> <<RV, SO>>

\* What one leaf function computes at one index: ins are the values of its
\* input parameters (in parameter order), the result the values of its output
\* parameters (in parameter order).
FnApply(fun, ins) ==
  CASE fun = "AddOne"  -> <<ins[1] + 1>>
    [] fun = "Double"  -> <<2 * ins[1]>>
    [] fun = "Add"     -> <<ins[1] + ins[2]>>
    [] fun = "Split"   -> <<ins[1] + 1, ins[1] + 2>>
    [] fun = "MakeVec" -> <<(<<ins[1]>>)>>
    [] fun = "Append"  -> <<Append(ins[1], ins[2])>>
    [] fun = "Push7"   -> <<Append(ins[1], 7)>>
    [] fun = "Len"     -> <<Len(ins[1])>>

\* Positions of the sequence s whose element satisfies the set cats, in order.
RECURSIVE IndicesIn(_, _, _)
IndicesIn(sig, cats, k) ==
  IF k > Len(sig) THEN <<>>
  ELSE (IF sig[k] \in cats THEN <<k>> ELSE <<>>) \o IndicesIn(sig, cats, k + 1)

\* function_node.input_param_indices() / output_param_indices()
input_param_indices(fun) == IndicesIn(Signature(fun), InputCats, 1)
output_param_indices(fun) == IndicesIn(Signature(fun), OutputCats, 1)

\* Vector::first_index
first_index(seq, x) == CHOOSE k \in 1 .. Len(seq) : seq[k] = x /\ \A j \in 1 .. (k - 1) : seq[j] # x

\* ------------------------------------------------------------- networks
\* A network: its function nodes (node -> [fun, ins, outs], the sockets in
\* socket-index order), the links (output socket -> its targets, in order),
\* and the declared boundary of the evaluation (m_inputs, m_outputs).
\* in_types[k] is the data type category of m_inputs[k].
Node(f, i, o) == [fun |-> f, ins |-> i, outs |-> o]

NetChain ==
  [ node |-> ("f" :> Node("AddOne", <<"f.i1">>, <<"f.o1">>)),
    targets |-> ("x" :> <<"f.i1">> @@ "f.o1" :> <<"out1">>),
    m_inputs |-> <<"x">>, in_types |-> <<"Single">>,
    m_outputs |-> <<"out1">> ]

NetDiamond ==
  [ node |-> ("f" :> Node("AddOne", <<"f.i1">>, <<"f.o1">>)
           @@ "g" :> Node("AddOne", <<"g.i1">>, <<"g.o1">>)
           @@ "h" :> Node("Double", <<"h.i1">>, <<"h.o1">>)
           @@ "k" :> Node("Add", <<"k.i1", "k.i2">>, <<"k.o1">>)),
    targets |-> ("x" :> <<"f.i1">>
              @@ "f.o1" :> <<"g.i1", "h.i1">>
              @@ "g.o1" :> <<"k.i1">>
              @@ "h.o1" :> <<"k.i2">>
              @@ "k.o1" :> <<"out1">>),
    m_inputs |-> <<"x">>, in_types |-> <<"Single">>,
    m_outputs |-> <<"out1">> ]

\* f feeds two requested outputs; u and w are demanded by nobody.
NetShared ==
  [ node |-> ("f" :> Node("AddOne", <<"f.i1">>, <<"f.o1">>)
           @@ "u" :> Node("Double", <<"u.i1">>, <<"u.o1">>)
           @@ "w" :> Node("AddOne", <<"w.i1">>, <<"w.o1">>)),
    targets |-> ("x" :> <<"f.i1", "w.i1">>
              @@ "f.o1" :> <<"out1", "u.i1", "out2">>
              @@ "u.o1" :> <<"sink">>
              @@ "w.o1" :> <<>>),
    m_inputs |-> <<"x">>, in_types |-> <<"Single">>,
    m_outputs |-> <<"out1", "out2">> ]

\* A vector output that fans out to mutable and read-only consumers.
NetVecFan ==
  [ node |-> ("mk" :> Node("MakeVec", <<"mk.i1">>, <<"mk.o1">>)
           @@ "app" :> Node("Append", <<"app.i1", "app.i2">>, <<"app.o1">>)
           @@ "len" :> Node("Len", <<"len.i1">>, <<"len.o1">>)
           @@ "p7" :> Node("Push7", <<"p7.i1">>, <<"p7.o1">>)
           @@ "p8" :> Node("Push7", <<"p8.i1">>, <<"p8.o1">>)
           @@ "len2" :> Node("Len", <<"len2.i1">>, <<"len2.o1">>)),
    targets |-> ("x" :> <<"mk.i1", "app.i2">>
              @@ "mk.o1" :> <<"app.i1", "len.i1", "outv", "p7.i1", "sinkv">>
              @@ "app.o1" :> <<"outa", "len2.i1">>
              @@ "len.o1" :> <<"outl">>
              @@ "p7.o1" :> <<"p8.i1">>
              @@ "p8.o1" :> <<"outp">>
              @@ "len2.o1" :> <<"outl2">>),
    m_inputs |-> <<"x">>, in_types |-> <<"Single">>,
    m_outputs |-> <<"outa", "outl", "outv", "outp", "outl2">> ]

\* A vector network input with mutable and read-only consumers; idle is a
\* mutable-vector consumer that nobody demands.
NetVecIn ==
  [ node |-> ("app" :> Node("Append", <<"app.i1", "app.i2">>, <<"app.o1">>)
           @@ "len" :> Node("Len", <<"len.i1">>, <<"len.o1">>)
           @@ "idle" :> Node("Push7", <<"idle.i1">>, <<"idle.o1">>)
           @@ "p7" :> Node("Push7", <<"p7.i1">>, <<"p7.o1">>)),
    targets |-> ("vin" :> <<"app.i1", "len.i1", "outv", "idle.i1">>
              @@ "x" :> <<"app.i2">>
              @@ "app.o1" :> <<"outa", "p7.i1">>
              @@ "len.o1" :> <<"outl">>
              @@ "idle.o1" :> <<>>
              @@ "p7.o1" :> <<"outp">>),
    m_inputs |-> <<"vin", "x">>, in_types |-> <<"Vector", "Single">>,
    m_outputs |-> <<"outa", "outl", "outv", "outp">> ]

\* A node with two outputs.
NetSplit ==
  [ node |-> ("sp" :> Node("Split", <<"sp.i1">>, <<"sp.o1", "sp.o2">>)
           @@ "g" :> Node("AddOne", <<"g.i1">>, <<"g.o1">>)),
    targets |-> ("x" :> <<"sp.i1">>
              @@ "sp.o1" :> <<"out1">>
              @@ "sp.o2" :> <<"g.i1">>
              @@ "g.o1" :> <<"out2">>),
    m_inputs |-> <<"x">>, in_types |-> <<"Single">>,
    m_outputs |-> <<"out1", "out2">> ]

\* A vector output with read-only consumers only.
NetVecShare ==
  [ node |-> ("mk" :> Node("MakeVec", <<"mk.i1">>, <<"mk.o1">>)
           @@ "lenA" :> Node("Len", <<"lenA.i1">>, <<"lenA.o1">>)
           @@ "lenB" :> Node("Len", <<"lenB.i1">>, <<"lenB.o1">>)
           @@ "add" :> Node("Add", <<"add.i1", "add.i2">>, <<"add.o1">>)),
    targets |-> ("x" :> <<"mk.i1">>
              @@ "mk.o1" :> <<"lenA.i1", "lenB.i1", "outv">>
              @@ "lenA.o1" :> <<"add.i1">>
              @@ "lenB.o1" :> <<"add.i2">>
              @@ "add.o1" :> <<"outs", "outs2">>),
    m_inputs |-> <<"x">>, in_types |-> <<"Single">>,
    m_outputs |-> <<"outv", "outs", "outs2">> ]

\* A dependency cycle a -> b -> a below the requested output; f is
\* demanded by a but is on no cycle.
NetCycle ==
  [ node |-> ("a" :> Node("Add", <<"a.i1", "a.i2">>, <<"a.o1">>)
           @@ "b" :> Node("AddOne", <<"b.i1">>, <<"b.o1">>)
           @@ "f" :> Node("AddOne", <<"f.i1">>, <<"f.o1">>)),
    targets |-> ("x" :> <<"f.i1">>
              @@ "f.o1" :> <<"a.i2">>
              @@ "a.o1" :> <<"b.i1">>
              @@ "b.o1" :> <<"a.i1", "out1">>),
    m_inputs |-> <<"x">>, in_types |-> <<"Single">>,
    m_outputs |-> <<"out1">> ]

\* Network inputs wired straight to network outputs.
NetPass ==
  [ node |-> <<>>,
    targets |-> ("x" :> <<"out1">> @@ "vin" :> <<"outv">>),
    m_inputs |-> <<"x", "vin">>, in_types |-> <<"Single", "Vector">>,
    m_outputs |-> <<"out1", "outv">> ]

Networks == <<NetChain, NetDiamond, NetShared, NetVecFan, NetVecIn, NetSplit,
              NetVecShare, NetCycle, NetPass>>

\* Networks no validated construction produces.
\* A vector output linked to a read-only single input (f.i1).
NetBadForward ==
  [ node |-> ("mk" :> Node("MakeVec", <<"mk.i1">>, <<"mk.o1">>)
           @@ "f" :> Node("AddOne", <<"f.i1">>, <<"f.o1">>)),
    targets |-> ("x" :> <<"mk.i1">>
              @@ "mk.o1" :> <<"outv", "f.i1">>
              @@ "f.o1" :> <<"out1">>),
    m_inputs |-> <<"x">>, in_types |-> <<"Single">>,
    m_outputs |-> <<"outv", "out1">> ]

\* A vector network input linked to a read-only single input (f.i1).
NetBadInput ==
  [ node |-> ("f" :> Node("AddOne", <<"f.i1">>, <<"f.o1">>)
           @@ "len" :> Node("Len", <<"len.i1">>, <<"len.o1">>)),
    targets |-> ("vin" :> <<"len.i1", "f.i1">>
              @@ "f.o1" :> <<"out1">>
              @@ "len.o1" :> <<"outl">>),
    m_inputs |-> <<"vin">>, in_types |-> <<"Vector">>,
    m_outputs |-> <<"out1", "outl">> ]

\* The same output socket declared as network input twice.
NetDupInput ==
  [ node |-> ("f" :> Node("AddOne", <<"f.i1">>, <<"f.o1">>)),
    targets |-> ("x" :> <<"f.i1">> @@ "f.o1" :> <<"out1">>),
    m_inputs |-> <<"x", "x">>, in_types |-> <<"Single", "Single">>,
    m_outputs |-> <<"out1">> ]

MalformedNetworks == <<NetBadForward, NetBadInput, NetDupInput>>
AllNetworks == Networks \o MalformedNetworks

\* ------------------------------------------------------ graph accessors
Range(seq) == {seq[k] : k \in 1 .. Len(seq)}

Nodes(g) == DOMAIN g.node
OutputSockets(g) == DOMAIN g.targets
InputSockets(g) == UNION {Range(g.targets[o]) : o \in OutputSockets(g)}

\* MFInputSocket::origin
origin(g, i) == CHOOSE o \in OutputSockets(g) : i \in Range(g.targets[o])

\* MFSocket::node / MFNode::is_function (a socket of no function node belongs
\* to a dummy node)
InputIsFunction(g, i) == \E n \in Nodes(g) : i \in Range(g.node[n].ins)
OutputIsFunction(g, o) == \E n \in Nodes(g) : o \in Range(g.node[n].outs)
NodeOfInput(g, i) == CHOOSE n \in Nodes(g) : i \in Range(g.node[n].ins)
NodeOfOutput(g, o) == CHOOSE n \in Nodes(g) : o \in Range(g.node[n].outs)

\* target_function_node.function().param_type(input_param_indices()[target->index()])
ParamTypeOfInput(g, i) ==
  LET n == g.node[NodeOfInput(g, i)]
      idx == first_index(n.ins, i)
  IN Signature(n.fun)[input_param_indices(n.fun)[idx]]

ParamTypeOfOutput(g, o) ==
  LET n == g.node[NodeOfOutput(g, o)]
      idx == first_index(n.outs, o)
  IN Signature(n.fun)[output_param_indices(n.fun)[idx]]

\* socket.type().category()
OutputCategory(g, o) ==
  IF OutputIsFunction(g, o)
    THEN (IF ParamTypeOfOutput(g, o) = SO THEN "Single" ELSE "Vector")
    ELSE g.in_types[first_index(g.m_inputs, o)]
InputCategory(g, i) == OutputCategory(g, origin(g, i))

\* The function nodes a node reads from directly.
Preds(g, n) ==
  {NodeOfOutput(g, origin(g, i)) :
     i \in {j \in Range(g.node[n].ins) : OutputIsFunction(g, origin(g, j))}}

RECURSIVE ReachUp(_, _, _)
ReachUp(g, S, k) ==
  IF k = 0 THEN S ELSE ReachUp(g, S \cup UNION {Preds(g, n) : n \in S}, k - 1)

\* No function node depends on itself.
Acyclic(g) ==
  \A n \in Nodes(g) : n \notin ReachUp(g, Preds(g, n), Cardinality(Nodes(g)))

\* ------------------------------------------------------------- buffers
\* The value of a position of a single array nobody wrote yet.
Uninit == -1

\* Variant: the amount is off by one.
indices_amount_OffByOne(m) == Cardinality(m) + 1

\* MFMask::indices_amount
indices_amount(m) == Cardinality(m)

\* MFMask::min_array_size (largest index + 1); only used for non-empty masks
min_array_size(m) == (CHOOSE i \in m : \A j \in m : j <= i) + 1

\* A buffer is [kind, data]; data maps the positions 0 .. size-1 to values.
Buffer(kind, data) == [kind |-> kind, data |-> data]
BufSize(b) == Cardinality(DOMAIN b.data)

\* The mutable scratch state one call threads through its steps.
\*   heap: all buffers by identity (identity = position in the sequence)
\*   allocs: the buffers the engine allocated, with the reason
Scratch(h, s, a, va, al, f) ==
  [heap |-> h, storage |-> s, m_arrays |-> a, m_vector_arrays |-> va,
   allocs |-> al, faults |-> f]

\* F applied to the value of x, which is computed once.
With(x, F(_)) == CHOOSE r \in {F(v) : v \in {x}} : TRUE

\* new GenericVectorArray(...) / allocate_array(...): a fresh buffer identity
NewBuffer(st, kind, data, why) ==
  With(st, LAMBDA s :
    [s EXCEPT !.heap = Append(@, Buffer(kind, data)),
              !.allocs = Append(@, [buf |-> Len(s.heap) + 1, why |-> why])])
LastBuffer(st) == Len(st.heap)

\* ------------------------------------------------------------- Storage
\* Map::add_new: the socket must not have a value yet
SetInput(st, socket, kind, buf) ==
  With(st, LAMBDA s :
    [s EXCEPT !.storage = (socket :> [kind |-> kind, buf |-> buf]) @@ @,
              !.faults = IF socket \in DOMAIN s.storage
                           THEN @ \cup {"input already has a value"} ELSE @])

set_virtual_list_for_input__non_owning(st, socket, buf) ==
  SetInput(st, socket, "virtual_list", buf)
set_virtual_list_list_for_input__non_owning(st, socket, buf) ==
  SetInput(st, socket, "virtual_list_list", buf)
set_vector_array_for_input__non_owning(st, socket, buf) ==
  SetInput(st, socket, "vector_array", buf)

\* Storage::input_is_computed
input_is_computed(sto, socket) == socket \in DOMAIN sto

take_array_ref_ownership(st, buf) ==
  [st EXCEPT !.m_arrays = Append(@, buf)]
take_vector_array_ownership(st, buf) ==
  [st EXCEPT !.m_vector_arrays = Append(@, buf)]
\* Storage::take_vector_array_ownership__not_twice
take_vector_array_ownership__not_twice(st, buf) ==
  With(st, LAMBDA s :
    IF buf \in Range(s.m_vector_arrays) THEN s
    ELSE [s EXCEPT !.m_vector_arrays = Append(@, buf)])

\* GenericVectorArray::extend_single__copy(i, values) applied at every
\* position of idxs: the values are appended to what position i holds
ExtendCopy(data, idxs, src) ==
  [i \in DOMAIN data |-> IF i \in idxs THEN data[i] \o src[i] ELSE data[i]]

\* A new vector array of the given size holding a deep copy of src:
\* new GenericVectorArray(type, size); for (i < size) extend_single__copy(i, src[i])
CopiedVectorArray(src, size) ==
  ExtendCopy([i \in 0 .. (size - 1) |-> <<>>], 0 .. (size - 1), src)

\* ----------------------------------------------- copy_inputs_to_storage
\* Variant: the copy made for a mutable-vector consumer is not registered.
BindVectorInputTarget_NoOwnership(g, st, target, buf) ==
  IF InputIsFunction(g, target) /\ ParamTypeOfInput(g, target) = MV THEN
    With(st, LAMBDA s :
      With(NewBuffer(s, "vector_array",
                     CopiedVectorArray(s.heap[buf].data, BufSize(s.heap[buf])),
                     [by |-> "copy_inputs_to_storage", socket |-> target]),
           LAMBDA s1 :
             set_vector_array_for_input__non_owning(s1, target, LastBuffer(s1))))
  ELSE set_virtual_list_list_for_input__non_owning(st, target, buf)

\* Variant: a consumer of another category is skipped without a fault.
BindVectorInputTarget_NoAssert(g, st, target, buf) ==
  IF InputIsFunction(g, target) THEN
    IF ParamTypeOfInput(g, target) = RV THEN
      set_virtual_list_list_for_input__non_owning(st, target, buf)
    ELSE IF ParamTypeOfInput(g, target) = MV THEN
      With(st, LAMBDA s :
        With(NewBuffer(s, "vector_array",
                       CopiedVectorArray(s.heap[buf].data, BufSize(s.heap[buf])),
                       [by |-> "copy_inputs_to_storage", socket |-> target]),
             LAMBDA s1 :
               take_vector_array_ownership(
                 set_vector_array_for_input__non_owning(s1, target, LastBuffer(s1)),
                 LastBuffer(s1))))
    ELSE st
  ELSE set_virtual_list_list_for_input__non_owning(st, target, buf)

\* Variant: a mutable-vector consumer is bound to the caller's view itself.
BindVectorInputTarget_Shared(g, st, target, buf) ==
  IF InputIsFunction(g, target) /\ ParamTypeOfInput(g, target) = MV
    THEN set_vector_array_for_input__non_owning(st, target, buf)
    ELSE set_virtual_list_list_for_input__non_owning(st, target, buf)

\* One target of a Vector network input (the body of the loop of line 32).
BindVectorInputTarget(g, st, target, buf) ==
  IF InputIsFunction(g, target) THEN
    IF ParamTypeOfInput(g, target) = RV THEN
      set_virtual_list_list_for_input__non_owning(st, target, buf)
    ELSE IF ParamTypeOfInput(g, target) = MV THEN
      With(st, LAMBDA s :
        With(NewBuffer(s, "vector_array",
                       CopiedVectorArray(s.heap[buf].data, BufSize(s.heap[buf])),
                       [by |-> "copy_inputs_to_storage", socket |-> target]),
             LAMBDA s1 :
               take_vector_array_ownership(
                 set_vector_array_for_input__non_owning(s1, target, LastBuffer(s1)),
                 LastBuffer(s1))))
    ELSE [st EXCEPT !.faults = @ \cup {"BLI_assert(false)"}]
  ELSE set_virtual_list_list_for_input__non_owning(st, target, buf)

\* Variant: the last target of a network input is bound once more.
RECURSIVE BindInputTargets_Twice(_, _, _, _, _, _)
BindInputTargets_Twice(g, st, cat, tgts, k, buf) ==
  IF k > Len(tgts) THEN
    IF Len(tgts) = 0 THEN st
    ELSE set_virtual_list_for_input__non_owning(st, tgts[Len(tgts)], buf)
  ELSE BindInputTargets_Twice(g,
         IF cat = "Single"
           THEN set_virtual_list_for_input__non_owning(st, tgts[k], buf)
           ELSE BindVectorInputTarget(g, st, tgts[k], buf),
         cat, tgts, k + 1, buf)

\* The targets of one network input (the loops of lines 25 and 32).
RECURSIVE BindInputTargets(_, _, _, _, _, _)
BindInputTargets(g, st, cat, tgts, k, buf) ==
  IF k > Len(tgts) THEN st
  ELSE BindInputTargets(g,
         IF cat = "Single"
           THEN set_virtual_list_for_input__non_owning(st, tgts[k], buf)
           ELSE BindVectorInputTarget(g, st, tgts[k], buf),
         cat, tgts, k + 1, buf)

RECURSIVE copy_inputs_to_storage(_, _, _, _)
copy_inputs_to_storage(g, st, pins, i) ==
  IF i > Len(g.m_inputs) THEN st
  ELSE copy_inputs_to_storage(g,
         BindInputTargets(g, st, g.in_types[i], g.targets[g.m_inputs[i]], 1, pins[i]),
         pins, i + 1)

\* ------------------------------------------ compute_and_forward_outputs
\* Storage getters: the buffer associated with an input socket.
get_virtual_list_for_input(st, socket) == st.storage[socket].buf
get_virtual_list_list_for_input(st, socket) == st.storage[socket].buf
get_vector_array_for_input(st, socket) == st.storage[socket].buf

\* Variant: every input parameter reads the first input socket.
InputSocketOfParam_First(nd, param_index) == nd.ins[1]

InputSocketOfParam(nd, param_index) ==
  nd.ins[first_index(input_param_indices(nd.fun), param_index)]
OutputSocketOfParam(nd, param_index) ==
  nd.outs[first_index(output_param_indices(nd.fun), param_index)]

\* The loop over function.param_indices() (lines 122-170): acc carries the
\* scratch state, the argument of each parameter added so far and the two
\* lists of outputs to forward.
AddParam(nd, acc, param_index, array_size) ==
  With(acc, LAMBDA a :
    LET cat == Signature(nd.fun)[param_index] IN
    CASE cat = RS ->
           [a EXCEPT !.args = Append(@,
              get_virtual_list_for_input(a.st, InputSocketOfParam(nd, param_index)))]
      [] cat = RV ->
           [a EXCEPT !.args = Append(@,
              get_virtual_list_list_for_input(a.st, InputSocketOfParam(nd, param_index)))]
      [] cat = SO ->
           With(NewBuffer(a.st, "array",
                          [i \in 0 .. (array_size - 1) |-> Uninit],
                          [by |-> "single_output",
                           socket |-> OutputSocketOfParam(nd, param_index)]),
                LAMBDA s1 :
                  [a EXCEPT !.st = s1,
                            !.args = Append(@, LastBuffer(s1)),
                            !.single = Append(@,
                               <<OutputSocketOfParam(nd, param_index), LastBuffer(s1)>>)])
      [] cat = VO ->
           With(NewBuffer(a.st, "vector_array",
                          [i \in 0 .. (array_size - 1) |-> <<>>],
                          [by |-> "vector_output",
                           socket |-> OutputSocketOfParam(nd, param_index)]),
                LAMBDA s1 :
                  [a EXCEPT !.st = s1,
                            !.args = Append(@, LastBuffer(s1)),
                            !.vector = Append(@,
                               <<OutputSocketOfParam(nd, param_index), LastBuffer(s1)>>)])
      [] cat = MV ->
           [a EXCEPT !.args = Append(@,
                get_vector_array_for_input(a.st, InputSocketOfParam(nd, param_index))),
                     !.vector = Append(@,
                        <<OutputSocketOfParam(nd, param_index),
                          get_vector_array_for_input(a.st,
                             InputSocketOfParam(nd, param_index))>>)])

RECURSIVE BuildParams(_, _, _, _)
BuildParams(nd, acc, param_index, array_size) ==
  IF param_index > Len(Signature(nd.fun)) THEN acc
  ELSE BuildParams(nd, AddParam(nd, acc, param_index, array_size),
                   param_index + 1, array_size)

\* function.call(mask, params, context) (line 173): at every index of the
\* mask the leaf function reads its input parameters and writes its output
\* parameters; a mutable vector is read and written in place.
ArgValuesAt(h, fun, args, i) ==
  [j \in 1 .. Len(input_param_indices(fun)) |->
     h[args[input_param_indices(fun)[j]]].data[i]]

\* The buffers of the output parameters after the call: results maps each
\* index of the mask to the values the leaf function produced there.
RECURSIVE WriteOutputs(_, _, _, _, _, _)
WriteOutputs(results, h, fun, args, m, j) ==
  IF j > Len(output_param_indices(fun)) THEN h
  ELSE WriteOutputs(results,
         [h EXCEPT ![args[output_param_indices(fun)[j]]].data =
            [i \in DOMAIN @ |-> IF i \in m THEN results[i][j] ELSE @[i]]],
         fun, args, m, j + 1)

function_call(st, fun, args, m) ==
  With(st, LAMBDA s :
    With([i \in m |-> FnApply(fun, ArgValuesAt(s.heap, fun, args, i))],
         LAMBDA results :
           [s EXCEPT !.heap = WriteOutputs(results, @, fun, args, m, 1)]))

\* Variant: only the first target of a single output receives the value.
ForwardSingleTargets_FirstOnly(st, tgts, k, values) ==
  IF Len(tgts) = 0 THEN st
  ELSE set_virtual_list_for_input__non_owning(st, tgts[1], values)

\* lines 180-182
RECURSIVE ForwardSingleTargets(_, _, _, _)
ForwardSingleTargets(st, tgts, k, values) ==
  IF k > Len(tgts) THEN st
  ELSE ForwardSingleTargets(
         set_virtual_list_for_input__non_owning(st, tgts[k], values),
         tgts, k + 1, values)

\* lines 175-183
RECURSIVE ForwardSingleOutputs(_, _, _, _)
ForwardSingleOutputs(g, st, single, k) ==
  IF k > Len(single) THEN st
  ELSE ForwardSingleOutputs(g,
         ForwardSingleTargets(take_array_ref_ownership(st, single[k][2]),
                              g.targets[single[k][1]], 1, single[k][2]),
         single, k + 1)

\* Variant: a mutable-vector consumer is given the forwarded collection
\* itself instead of a copy.
ForwardVectorTarget_NoCopy(g, st, target, values) ==
  IF InputIsFunction(g, target) THEN
    IF ParamTypeOfInput(g, target) = RV THEN
      set_virtual_list_list_for_input__non_owning(st, target, values)
    ELSE set_vector_array_for_input__non_owning(st, target, values)
  ELSE IF target \in Range(g.m_outputs) THEN
    set_virtual_list_list_for_input__non_owning(st, target, values)
  ELSE st

\* Variant: a mutable-vector consumer shares the forwarded collection; the
\* other cases are as in the code.
ForwardVectorTarget_ShareMutable(g, st, target, values) ==
  IF InputIsFunction(g, target) THEN
    IF ParamTypeOfInput(g, target) = RV THEN
      set_virtual_list_list_for_input__non_owning(st, target, values)
    ELSE IF ParamTypeOfInput(g, target) = MV THEN
      set_vector_array_for_input__non_owning(st, target, values)
    ELSE [st EXCEPT !.faults = @ \cup {"BLI_assert(false)"}]
  ELSE IF target \in Range(g.m_outputs) THEN
    set_virtual_list_list_for_input__non_owning(st, target, values)
  ELSE st

\* Variant: every function-node consumer is given a copy of its own.
ForwardVectorTarget_AlwaysCopy(g, st, target, values) ==
  IF InputIsFunction(g, target) THEN
    With(st, LAMBDA s :
      With(NewBuffer(s, "vector_array",
                     CopiedVectorArray(s.heap[values].data,
                                       BufSize(s.heap[values])),
                     [by |-> "forward_copy", socket |-> target]),
           LAMBDA s1 :
             SetInput(take_vector_array_ownership(s1, LastBuffer(s1)), target,
                      IF ParamTypeOfInput(g, target) = RV
                        THEN "virtual_list_list" ELSE "vector_array",
                      LastBuffer(s1))))
  ELSE IF target \in Range(g.m_outputs) THEN
    set_virtual_list_list_for_input__non_owning(st, target, values)
  ELSE st

\* One target of a vector output (the body of the loop of line 190).
ForwardVectorTarget(g, st, target, values) ==
  IF InputIsFunction(g, target) THEN
    IF ParamTypeOfInput(g, target) = RV THEN
      set_virtual_list_list_for_input__non_owning(st, target, values)
    ELSE IF ParamTypeOfInput(g, target) = MV THEN
      With(st, LAMBDA s :
        With(NewBuffer(s, "vector_array",
                       CopiedVectorArray(s.heap[values].data,
                                         BufSize(s.heap[values])),
                       [by |-> "forward_copy", socket |-> target]),
             LAMBDA s1 :
               set_vector_array_for_input__non_owning(
                 take_vector_array_ownership(s1, LastBuffer(s1)),
                 target, LastBuffer(s1))))
    ELSE [st EXCEPT !.faults = @ \cup {"BLI_assert(false)"}]
  ELSE IF target \in Range(g.m_outputs) THEN
    set_virtual_list_list_for_input__non_owning(st, target, values)
  ELSE st

\* Variant: only the first target of a vector output is handled.
ForwardVectorTargets_FirstOnly(g, st, tgts, k, values) ==
  IF Len(tgts) = 0 THEN st
  ELSE ForwardVectorTarget(g, st, tgts[1], values)

\* The targets of one vector output (the loop of line 190).
RECURSIVE ForwardVectorTargets(_, _, _, _, _)
ForwardVectorTargets(g, st, tgts, k, values) ==
  IF k > Len(tgts) THEN st
  ELSE ForwardVectorTargets(g, ForwardVectorTarget(g, st, tgts[k], values),
                            tgts, k + 1, values)

\* Variant: the forwarded collection is registered with the plain
\* take_vector_array_ownership.
RECURSIVE ForwardVectorOutputs_PlainOwnership(_, _, _, _)
ForwardVectorOutputs_PlainOwnership(g, st, vector, k) ==
  IF k > Len(vector) THEN st
  ELSE ForwardVectorOutputs_PlainOwnership(g,
         ForwardVectorTargets(g,
           take_vector_array_ownership(st, vector[k][2]),
           g.targets[vector[k][1]], 1, vector[k][2]),
         vector, k + 1)

\* lines 185-217
RECURSIVE ForwardVectorOutputs(_, _, _, _)
ForwardVectorOutputs(g, st, vector, k) ==
  IF k > Len(vector) THEN st
  ELSE ForwardVectorOutputs(g,
         ForwardVectorTargets(g,
           take_vector_array_ownership__not_twice(st, vector[k][2]),
           g.targets[vector[k][1]], 1, vector[k][2]),
         vector, k + 1)

compute_and_forward_outputs(g, m, n, st) ==
  With(BuildParams(g.node[n],
                   [st |-> st, args |-> <<>>, single |-> <<>>, vector |-> <<>>],
                   1, min_array_size(m)),
       LAMBDA built :
         ForwardVectorOutputs(g,
           ForwardSingleOutputs(g,
             function_call(built.st, g.node[n].fun, built.args, m),
             built.single, 1),
           built.vector, 1))

\* --------------------------------------- copy_computed_values_to_outputs
\* Variant: the copy runs over 0 .. indices_amount - 1 instead of the
\* indices of the mask.
CopyOutput_Dense(g, m, st, dest, socket) ==
  With(st, LAMBDA s :
    IF InputCategory(g, socket) = "Single" THEN
      [s EXCEPT !.heap[dest].data =
         [i \in DOMAIN @ |->
            IF i < Cardinality(m) THEN s.heap[s.storage[socket].buf].data[i]
            ELSE @[i]]]
    ELSE
      [s EXCEPT !.heap[dest].data =
         ExtendCopy(@, 0 .. (Cardinality(m) - 1),
                    s.heap[s.storage[socket].buf].data)])

\* Variant: a Vector destination is overwritten with the computed collection.
CopyOutput_Assign(g, m, st, dest, socket) ==
  With(st, LAMBDA s :
    [s EXCEPT !.heap[dest].data =
       [i \in DOMAIN @ |->
          IF i \in m THEN s.heap[s.storage[socket].buf].data[i] ELSE @[i]]])

\* One declared output (the body of the loop of line 224): the computed
\* value of socket is copied into the destination at the indices of the mask.
CopyOutput(g, m, st, dest, socket) ==
  With(st, LAMBDA s :
    IF InputCategory(g, socket) = "Single" THEN
      [s EXCEPT !.heap[dest].data =
         [i \in DOMAIN @ |->
            IF i \in m THEN s.heap[get_virtual_list_for_input(s, socket)].data[i]
            ELSE @[i]]]
    ELSE
      [s EXCEPT !.heap[dest].data =
         ExtendCopy(@, m, s.heap[get_virtual_list_list_for_input(s, socket)].data)])

RECURSIVE copy_computed_values_to_outputs(_, _, _, _, _)
copy_computed_values_to_outputs(g, m, st, pouts, output_index) ==
  IF output_index > Len(g.m_outputs) THEN st
  ELSE copy_computed_values_to_outputs(g, m,
         CopyOutput(g, m, st, pouts[output_index], g.m_outputs[output_index]),
         pouts, output_index + 1)

\* ------------------------------------------------------ caller arguments
\* The lists a caller may pass for a Single input: base + index * step.
SingleLists == {[i \in Indices |-> b + i * s] : b \in 0 .. MaxBase, s \in 0 .. 1}
\* The list lists a caller may pass for a Vector input.
VectorLists ==
  {[i \in Indices |-> SubSeq(<<i, b>>, 1, l)] : b \in 0 .. MaxBase, l \in 0 .. 2}
\* What a Vector output destination may hold at every index before the call.
DestVectors == {<<>>, <<9>>}

InputBuffers(g, sl, vl) ==
  [k \in 1 .. Len(g.m_inputs) |->
     IF g.in_types[k] = "Single" THEN Buffer("caller_input", sl)
     ELSE Buffer("caller_input", vl)]
OutputBuffers(g, dv) ==
  [k \in 1 .. Len(g.m_outputs) |->
     IF InputCategory(g, g.m_outputs[k]) = "Single"
       THEN Buffer("caller_output", [i \in Indices |-> Uninit])
       ELSE Buffer("caller_output", [i \in Indices |-> dv])]

\* ------------------------------------------------------------- the call
G == AllNetworks[net]
Top == sockets_to_compute[Len(sockets_to_compute)]
\* Variant: popping empties the stack.
Pop_Clear(stack) == <<>>

\* Stack::pop
Pop(stack) == SubSeq(stack, 1, Len(stack) - 1)
Current ==
  Scratch(heap, storage, m_arrays, m_vector_arrays, allocs, faults)

Install(next) ==
  \E st \in {next} :
  /\ heap' = st.heap
  /\ storage' = st.storage
  /\ m_arrays' = st.m_arrays
  /\ m_vector_arrays' = st.m_vector_arrays
  /\ allocs' = st.allocs
  /\ faults' = st.faults

\* No second call.
NoCall == [pc |-> "none"]

\* The state at the entry of call, for the networks of the given numbers.
InitOver(nets) ==
  /\ net \in nets
  /\ mask \in SUBSET Indices
  /\ \E sl \in SingleLists, vl \in VectorLists, dv \in DestVectors :
       /\ heap = InputBuffers(AllNetworks[net], sl, vl)
                   \o OutputBuffers(AllNetworks[net], dv)
       /\ params = [ins |-> [k \in 1 .. Len(AllNetworks[net].m_inputs) |-> k],
                    outs |-> [k \in 1 .. Len(AllNetworks[net].m_outputs) |->
                                Len(AllNetworks[net].m_inputs) + k]]
  /\ created = FALSE
  /\ storage = <<>>
  /\ m_arrays = <<>>
  /\ m_vector_arrays = <<>>
  /\ sockets_to_compute = <<>>
  /\ pc = "call"
  /\ invoked = [n \in Nodes(AllNetworks[net]) |-> 0]
  /\ allocs = <<>>
  /\ released = <<>>
  /\ faults = {}
  /\ last = [op |-> "none"]
  /\ peer = NoCall

\* The networks a validated construction produces.
Init == InitOver(1 .. Len(Networks))

\* Every network, the malformed ones included.
WideInit == InitOver(1 .. Len(AllNetworks))

\* A failed assertion ends the call: the position after a step that was to
\* continue at next.
AfterStep(next, failed) == IF failed = {} THEN next ELSE "aborted"

\* call, lines 7-9: nothing to do for an empty mask
ReturnOnEmptyMask ==
  /\ pc = "call"
  /\ indices_amount(mask) = 0
  /\ pc' = "returned"
  /\ UNCHANGED <<peer, net, mask, params, heap, created, storage, m_arrays,
                 m_vector_arrays, sockets_to_compute, invoked, allocs,
                 released, faults, last>>

\* call, lines 11-12: Storage storage(mask); copy_inputs_to_storage
CopyInputsToStorage ==
  /\ pc = "call"
  /\ indices_amount(mask) # 0
  /\ created' = TRUE
  /\ Install(copy_inputs_to_storage(G, Current, params.ins, 1))
  /\ pc' = AfterStep("evaluate", faults')
  /\ UNCHANGED <<peer, net, mask, params, sockets_to_compute, invoked, released, last>>

\* Variant: only the first requested output is pushed.
RequestedSockets_FirstOnly(g) == SubSeq(g.m_outputs, 1, 1)

\* The sockets pushed before the loop: every requested output (lines 70-72).
RequestedSockets(g) == g.m_outputs

\* evaluate_network_to_compute_outputs, lines 68-72
PushOutputs ==
  /\ pc = "evaluate"
  /\ sockets_to_compute' = RequestedSockets(G)
  /\ pc' = "loop"
  /\ UNCHANGED <<peer, net, mask, params, heap, created, storage, m_arrays,
                 m_vector_arrays, invoked, allocs, released, faults, last>>

\* lines 77-81: the input socket on top is computed
PopComputedInput ==
  /\ pc = "loop"
  /\ sockets_to_compute # <<>>
  /\ Top \in InputSockets(G)
  /\ input_is_computed(storage, Top)
  /\ sockets_to_compute' = Pop(sockets_to_compute)
  /\ last' = [op |-> "pop_input", socket |-> Top]
  /\ UNCHANGED <<peer, net, mask, params, heap, created, storage, m_arrays,
                 m_vector_arrays, pc, invoked, allocs, released, faults>>

\* lines 82-85: the input socket on top is not computed
PushOrigin ==
  /\ pc = "loop"
  /\ sockets_to_compute # <<>>
  /\ Top \in InputSockets(G)
  /\ ~input_is_computed(storage, Top)
  /\ Len(sockets_to_compute) < MaxStack
  /\ sockets_to_compute' = Append(sockets_to_compute, origin(G, Top))
  /\ last' = [op |-> "push_origin", socket |-> Top]
  /\ UNCHANGED <<peer, net, mask, params, heap, created, storage, m_arrays,
                 m_vector_arrays, pc, invoked, allocs, released, faults>>

\* Variant: no input of the node is ever found not computed.
NotComputedInputs_None(sto, ins, k) == <<>>

\* Variant: only the first input of the node is looked at.
NotComputedInputs_FirstOnly(sto, ins, k) ==
  IF Len(ins) = 0 \/ input_is_computed(sto, ins[1]) THEN <<>> ELSE <<ins[1]>>

\* The inputs of a node that are not computed, in socket order (lines 92-97).
RECURSIVE NotComputedInputs(_, _, _)
NotComputedInputs(sto, ins, k) ==
  IF k > Len(ins) THEN <<>>
  ELSE (IF input_is_computed(sto, ins[k]) THEN <<>> ELSE <<ins[k]>>)
       \o NotComputedInputs(sto, ins, k + 1)

\* lines 87-99: the output socket on top has inputs that are not computed
PushInputs ==
  /\ pc = "loop"
  /\ sockets_to_compute # <<>>
  /\ Top \in OutputSockets(G)
  /\ OutputIsFunction(G, Top)
  /\ LET pushed == NotComputedInputs(storage, G.node[NodeOfOutput(G, Top)].ins, 1)
     IN /\ pushed # <<>>
        /\ Len(sockets_to_compute) + Len(pushed) <= MaxStack
        /\ sockets_to_compute' = sockets_to_compute \o pushed
  /\ last' = [op |-> "push_inputs", socket |-> Top]
  /\ UNCHANGED <<peer, net, mask, params, heap, created, storage, m_arrays,
                 m_vector_arrays, pc, invoked, allocs, released, faults>>

\* lines 87-103: no input of the node of the output socket on top was found
\* not computed: the node is invoked and the socket popped. Looking up an
\* input that has no value is undefined: the call is then taken to stop in
\* the invocation.
Invoke ==
  /\ pc = "loop"
  /\ sockets_to_compute # <<>>
  /\ Top \in OutputSockets(G)
  /\ OutputIsFunction(G, Top)
  /\ LET n == NodeOfOutput(G, Top)
     IN /\ NotComputedInputs(storage, G.node[n].ins, 1) = <<>>
        /\ invoked' = [invoked EXCEPT ![n] = @ + 1]
        /\ last' = [op |-> "invoke", socket |-> Top, node |-> n]
        /\ IF Range(G.node[n].ins) \subseteq DOMAIN storage
             THEN /\ Install(compute_and_forward_outputs(G, mask, n, Current))
                  /\ sockets_to_compute' = Pop(sockets_to_compute)
                  /\ pc' = AfterStep(pc, faults')
             ELSE /\ faults' = faults \cup {"lookup of a socket without value"}
                  /\ pc' = "undefined"
                  /\ UNCHANGED <<heap, storage, m_arrays, m_vector_arrays,
                                 allocs, sockets_to_compute>>
  /\ UNCHANGED <<peer, net, mask, params, created, released>>

\* call, line 14, once the loop of line 74 has ended. Looking up a socket
\* that has no value is undefined: the call is then taken to stop there.
CopyComputedValuesToOutputs ==
  /\ pc = "loop"
  /\ sockets_to_compute = <<>>
  /\ IF \A k \in 1 .. Len(G.m_outputs) : G.m_outputs[k] \in DOMAIN storage
       THEN /\ Install(copy_computed_values_to_outputs(G, mask, Current,
                                                       params.outs, 1))
            /\ pc' = "copied"
       ELSE /\ faults' = faults \cup {"lookup of a socket without value"}
            /\ pc' = "undefined"
            /\ UNCHANGED <<heap, storage, m_arrays, m_vector_arrays, allocs>>
  /\ UNCHANGED <<peer, net, mask, params, created, sockets_to_compute, invoked,
                 released, last>>

\* call, line 15: storage goes out of scope and releases what it registered
DestroyStorage ==
  /\ pc = "copied"
  /\ released' = m_vector_arrays \o m_arrays
  /\ pc' = "returned"
  /\ UNCHANGED <<peer, net, mask, params, heap, created, storage, m_arrays,
                 m_vector_arrays, sockets_to_compute, invoked, allocs, faults,
                 last>>

Next ==
  \/ ReturnOnEmptyMask
  \/ CopyInputsToStorage
  \/ PushOutputs
  \/ PopComputedInput
  \/ PushOrigin
  \/ PushInputs
  \/ Invoke
  \/ CopyComputedValuesToOutputs
  \/ DestroyStorage

Spec == Init /\ [][Next]_vars

\* The call is one sequential thread: it takes its next step whenever it has one.
FairSpec == Spec /\ WF_vars(Next)

\* The call on any network, malformed ones included.
WideSpec == WideInit /\ [][Next]_vars

\* ------------------------------------------------------------ two calls
\* What one call owns: its arguments, the Storage constructed at line 11, the
\* stack constructed at line 68, its position, and its history.
Locals ==
  [mask |-> mask, params |-> params, created |-> created, storage |-> storage,
   m_arrays |-> m_arrays, m_vector_arrays |-> m_vector_arrays,
   sockets_to_compute |-> sockets_to_compute, pc |-> pc, invoked |-> invoked,
   allocs |-> allocs, released |-> released, faults |-> faults, last |-> last]

\* Variant: the Storage is one object all calls use instead of a local of call.
Resume_SharedStorage(c) ==
  /\ mask' = c.mask
  /\ params' = c.params
  /\ created' = c.created
  /\ sockets_to_compute' = c.sockets_to_compute
  /\ pc' = c.pc
  /\ invoked' = c.invoked
  /\ allocs' = c.allocs
  /\ released' = c.released
  /\ faults' = c.faults
  /\ last' = c.last
  /\ UNCHANGED <<storage, m_arrays, m_vector_arrays>>

\* The suspended call c continues: the engine works on the locals of c.
Resume(c) ==
  /\ mask' = c.mask
  /\ params' = c.params
  /\ created' = c.created
  /\ storage' = c.storage
  /\ m_arrays' = c.m_arrays
  /\ m_vector_arrays' = c.m_vector_arrays
  /\ sockets_to_compute' = c.sockets_to_compute
  /\ pc' = c.pc
  /\ invoked' = c.invoked
  /\ allocs' = c.allocs
  /\ released' = c.released
  /\ faults' = c.faults
  /\ last' = c.last

\* The running call is suspended between two of its steps and the other call
\* continues; the network and the memory are the same for both.
Switch ==
  /\ peer # NoCall
  /\ peer' = Locals
  /\ Resume(peer)
  /\ UNCHANGED <<net, heap>>

\* The arguments of the two calls: different inputs, empty destinations.
FirstSingle == [i \in Indices |-> i]
SecondSingle == [i \in Indices |-> MaxBase + i]
FirstVector == [i \in Indices |-> <<i>>]
SecondVector == [i \in Indices |-> <<i, MaxBase>>]
\* The buffer ids of the arguments of a call whose buffers start after base.
ParamsAt(g, base) ==
  [ins |-> [k \in 1 .. Len(g.m_inputs) |-> base + k],
   outs |-> [k \in 1 .. Len(g.m_outputs) |-> base + Len(g.m_inputs) + k]]

\* The masks of the two calls: empty, dense, sparse and single.
ConcMasks == {{}, {0}, Indices \ {0}, Indices}

\* Two calls on the same network are at the entry of call.
ConcInit ==
  /\ net \in 1 .. Len(Networks)
  /\ mask \in ConcMasks
  /\ heap = InputBuffers(AllNetworks[net], FirstSingle, FirstVector)
              \o OutputBuffers(AllNetworks[net], <<>>)
              \o InputBuffers(AllNetworks[net], SecondSingle, SecondVector)
              \o OutputBuffers(AllNetworks[net], <<>>)
  /\ params = ParamsAt(AllNetworks[net], 0)
  /\ created = FALSE
  /\ storage = <<>>
  /\ m_arrays = <<>>
  /\ m_vector_arrays = <<>>
  /\ sockets_to_compute = <<>>
  /\ pc = "call"
  /\ invoked = [n \in Nodes(AllNetworks[net]) |-> 0]
  /\ allocs = <<>>
  /\ released = <<>>
  /\ faults = {}
  /\ last = [op |-> "none"]
  /\ \E m2 \in ConcMasks :
       peer = [mask |-> m2,
               params |-> ParamsAt(AllNetworks[net],
                                   Len(AllNetworks[net].m_inputs)
                                     + Len(AllNetworks[net].m_outputs)),
               created |-> FALSE, storage |-> <<>>, m_arrays |-> <<>>,
               m_vector_arrays |-> <<>>, sockets_to_compute |-> <<>>,
               pc |-> "call",
               invoked |-> [n \in Nodes(AllNetworks[net]) |-> 0],
               allocs |-> <<>>, released |-> <<>>, faults |-> {},
               last |-> [op |-> "none"]]

ConcNext == Next \/ Switch

\* Two calls on the same network, their steps interleaved in any order.
ConcSpec == ConcInit /\ [][ConcNext]_vars

\* ================================================================ claims
Invocations(n) == invoked[n]
LoopEnded == created /\ pc \in {"loop", "copied", "returned"} /\ sockets_to_compute = <<>>

\* C1: in one call on an acyclic network every function node is invoked at
\* most once, however many consumers reach its outputs; in the diamond
\* x -> f -> (g, h) -> k with k's output requested, f is invoked exactly once
\* by the time the traversal has ended.
C1_AtMostOnce ==
  Acyclic(G) =>
    /\ \A n \in Nodes(G) : Invocations(n) <= 1
    /\ (G = NetDiamond /\ LoopEnded) => Invocations("f") = 1

C1_Witness ==
  /\ G = NetDiamond
  /\ pc = "returned"
  /\ Invocations("f") = 1 /\ Invocations("g") = 1
  /\ Invocations("h") = 1 /\ Invocations("k") = 1

\* The input sockets the requested outputs depend on: the requested sockets
\* and, for each demanded socket whose origin is an output of a function
\* node, the inputs of that node (network inputs end the search).
RECURSIVE Demanded(_, _, _)
Demanded(g, D, k) ==
  IF k = 0 THEN D
  ELSE Demanded(g,
         D \cup UNION {Range(g.node[NodeOfOutput(g, origin(g, i))].ins) :
                         i \in {j \in D : OutputIsFunction(g, origin(g, j))}},
         k - 1)

NeededNodes(g) ==
  {NodeOfOutput(g, origin(g, i)) :
     i \in {j \in Demanded(g, Range(g.m_outputs), Cardinality(Nodes(g)) + 1) :
              OutputIsFunction(g, origin(g, j))}}

\* C2: on an acyclic network with a non-empty mask a function node is
\* invoked if and only if one of its outputs is a transitive origin of a
\* requested output: only such nodes are ever invoked, and when the traversal
\* has ended each of them has been invoked.
C2_DemandExact ==
  Acyclic(G) =>
    /\ \A n \in Nodes(G) : Invocations(n) > 0 => n \in NeededNodes(G)
    /\ LoopEnded => \A n \in NeededNodes(G) : Invocations(n) > 0

C2_Witness ==
  /\ G = NetShared
  /\ pc = "returned"
  /\ Invocations("f") = 1 /\ Invocations("u") = 0 /\ Invocations("w") = 0

\* Every input socket has an origin that is a declared network input or an
\* output of a function node.
OriginsAvailable(g) ==
  \A i \in InputSockets(g) :
    origin(g, i) \in Range(g.m_inputs) \/ OutputIsFunction(g, origin(g, i))

\* C3: on an acyclic network whose input sockets all have an available
\* origin, the work-stack loop, once entered, eventually ends with an empty
\* stack, and whenever the stack is empty at the loop every requested
\* output socket is computed in storage.
C3_Terminates ==
  /\ (pc = "evaluate" /\ Acyclic(G) /\ OriginsAvailable(G))
       ~> (pc = "loop" /\ sockets_to_compute = <<>>)
  /\ [](pc = "loop" /\ sockets_to_compute = <<>>
          => \A k \in 1 .. Len(G.m_outputs) : G.m_outputs[k] \in DOMAIN storage)

C3_Witness ==
  /\ G = NetVecFan
  /\ pc = "loop" /\ sockets_to_compute = <<>>
  /\ \A k \in 1 .. Len(G.m_outputs) : G.m_outputs[k] \in DOMAIN storage

\* C4: with a mask of zero active indices call returns at once: every step
\* of such a call leaves every buffer (the output destinations included),
\* the storage, its registries, the stack and the invocation counts as they
\* were, and the call never creates a storage, invokes a node or allocates.
C4_EmptyMaskNoOp ==
  [][ mask = {} =>
        /\ pc' = "returned"
        /\ heap' = heap /\ storage' = storage /\ created' = created
        /\ m_arrays' = m_arrays /\ m_vector_arrays' = m_vector_arrays
        /\ sockets_to_compute' = sockets_to_compute
        /\ invoked' = invoked /\ allocs' = allocs
        /\ ~created /\ storage = <<>> /\ allocs = <<>>
        /\ \A n \in Nodes(G) : Invocations(n) = 0 ]_vars

C4_Witness ==
  /\ mask = {}
  /\ pc = "returned"
  /\ ~created /\ allocs = <<>> /\ storage = <<>>

\* The input sockets bound to a mutable-vector parameter of a function node.
MutableInputs(g) ==
  {i \in InputSockets(g) : InputIsFunction(g, i) /\ ParamTypeOfInput(g, i) = MV}

\* The output socket of the mutable-vector parameter the input socket i is
\* bound to (lines 158-162).
PairedOutput(g, i) ==
  LET nd == g.node[NodeOfInput(g, i)]
      param_index == input_param_indices(nd.fun)[first_index(nd.ins, i)]
  IN nd.outs[first_index(output_param_indices(nd.fun), param_index)]

AllocatedFor(socket) ==
  {allocs[k].buf : k \in {j \in 1 .. Len(allocs) : allocs[j].why.socket = socket}}

\* C5 as stated: the collection of a mutable-vector input socket is
\* associated with no other input socket, at every point of the call.
C5_Original ==
  \A i \in MutableInputs(G) \cap DOMAIN storage :
    \A j \in DOMAIN storage \ {i} : storage[j].buf # storage[i].buf

\* C5 amended: the collection of a mutable-vector input socket is a copy
\* allocated for that socket alone; no other input socket is associated
\* with it before the socket's node has been invoked, and afterwards only
\* consumers of the node's matching output socket that are not themselves
\* mutable-vector inputs. No two mutable-vector inputs ever share one.
C5_PrivateUntilInvoked ==
  \A i \in MutableInputs(G) \cap DOMAIN storage :
    /\ storage[i].buf \in AllocatedFor(i)
    /\ \A j \in DOMAIN storage \ {i} :
         storage[j].buf = storage[i].buf =>
           /\ Invocations(NodeOfInput(G, i)) >= 1
           /\ origin(G, j) = PairedOutput(G, i)
           /\ j \notin MutableInputs(G)

C5_Witness ==
  /\ G = NetVecFan
  /\ {"app.i1", "p7.i1", "len.i1", "len2.i1"} \subseteq DOMAIN storage
  /\ storage["app.i1"].buf # storage["p7.i1"].buf
  /\ storage["app.i1"].buf # storage["len.i1"].buf
  /\ storage["p7.i1"].buf # storage["len.i1"].buf
  /\ storage["len2.i1"].buf = storage["app.i1"].buf

\* A consumer that cannot write what it is given.
ReadOnlyConsumer(g, t) ==
  IF InputIsFunction(g, t) THEN ParamTypeOfInput(g, t) \in {RS, RV}
  ELSE t \in Range(g.m_outputs)

FunctionOutputs(g) == {o \in OutputSockets(g) : OutputIsFunction(g, o)}

\* The buffers the function of o's node was given to write o into.
WrittenFor(g, o) ==
  IF ParamTypeOfOutput(g, o) = MV
    THEN {storage[i].buf :
            i \in {j \in MutableInputs(g) \cap DOMAIN storage :
                     PairedOutput(g, j) = o}}
    ELSE AllocatedFor(o)

\* C6: when an output socket of an invoked function node has read-only
\* consumers only, every consumer's input socket is associated with the one
\* buffer the function wrote for that socket, and no further buffer was
\* allocated for the socket or for any of its consumers.
C6_ReadOnlySharing ==
  \A o \in FunctionOutputs(G) :
    (/\ Invocations(NodeOfOutput(G, o)) >= 1
     /\ \A t \in Range(G.targets[o]) : ReadOnlyConsumer(G, t))
    => /\ Cardinality(WrittenFor(G, o)) = 1
       /\ \A t \in Range(G.targets[o]) :
            /\ t \in DOMAIN storage
            /\ storage[t].buf \in WrittenFor(G, o)
            /\ AllocatedFor(t) = {}

C6_Witness ==
  /\ G = NetVecShare
  /\ Invocations("mk") = 1 /\ Invocations("add") = 1
  /\ storage["lenA.i1"].buf = storage["lenB.i1"].buf
  /\ storage["lenA.i1"].buf = storage["outv"].buf
  /\ storage["outs"].buf = storage["outs2"].buf

AllocatedBuffers == {allocs[k].buf : k \in 1 .. Len(allocs)}

\* C7: every buffer allocated during the call is registered with the
\* storage, and when a call with a non-empty mask has returned every
\* allocated buffer has been released.
C7_NoLeak ==
  /\ AllocatedBuffers \subseteq Range(m_arrays) \cup Range(m_vector_arrays)
  /\ (pc = "returned" /\ created) => AllocatedBuffers \subseteq Range(released)

C7_Witness ==
  /\ G = NetVecIn
  /\ pc = "returned"
  /\ \A by \in {"copy_inputs_to_storage", "forward_copy", "single_output"} :
       \E k \in 1 .. Len(allocs) :
         allocs[k].why.by = by /\ allocs[k].buf \in Range(released)

NoDuplicates(seq) == \A a, b \in 1 .. Len(seq) : seq[a] = seq[b] => a = b

\* C8: the release registry holds every buffer identity at most once at
\* every point of the call, and no buffer is released twice; the collection
\* of a mutable-vector parameter is not registered again when its node
\* forwards it.
C8_NoDoubleRelease ==
  /\ NoDuplicates(m_arrays \o m_vector_arrays)
  /\ NoDuplicates(released)

C8_Witness ==
  /\ G = NetVecFan
  /\ Invocations("app") = 1
  /\ storage["outa"].buf = storage["app.i1"].buf
  /\ Cardinality({k \in 1 .. Len(m_vector_arrays) :
                    m_vector_arrays[k] = storage["app.i1"].buf}) = 1

\* The value of output socket o at index i that the network denotes: the
\* caller's input for a network input, else the leaf function of o's node
\* applied to the values of the origins of the node's inputs.
RECURSIVE ValueOf(_, _, _)
ValueOf(g, o, i) ==
  IF OutputIsFunction(g, o) THEN
    LET nd == g.node[NodeOfOutput(g, o)]
    IN FnApply(nd.fun,
               [j \in 1 .. Len(nd.ins) |-> ValueOf(g, origin(g, nd.ins[j]), i)])
         [first_index(nd.outs, o)]
  ELSE heap[params.ins[first_index(g.m_inputs, o)]].data[i]

\* C9: after a call on an acyclic network every Single output destination
\* holds, at every index of the mask, the value of the composition of the
\* upstream leaf functions on the caller's inputs at that index; the node
\* f(x) = x + 1 between input and output turns [1,2,3] under the mask
\* {0,1,2} into [2,3,4].
C9_SingleResults ==
  (Acyclic(G) /\ pc = "returned" /\ created) =>
    /\ \A k \in 1 .. Len(G.m_outputs) :
         InputCategory(G, G.m_outputs[k]) = "Single" =>
           \A i \in mask :
             heap[params.outs[k]].data[i] = ValueOf(G, origin(G, G.m_outputs[k]), i)
    /\ (/\ G = NetChain /\ mask = {0, 1, 2}
        /\ \A i \in 0 .. 2 : heap[params.ins[1]].data[i] = i + 1)
       => \A i \in 0 .. 2 : heap[params.outs[1]].data[i] = i + 2

C9_Witness ==
  /\ G = NetChain /\ pc = "returned" /\ mask = {0, 1, 2}
  /\ \A i \in 0 .. 2 : heap[params.ins[1]].data[i] = i + 1
  /\ \A i \in 0 .. 2 : heap[params.outs[1]].data[i] = i + 2

\* C10: no step of the call changes a position of an output destination
\* whose index is not in the mask.
C10_MaskFrame ==
  [][ \A k \in 1 .. Len(params.outs) : \A i \in Indices \ mask :
        heap'[params.outs[k]].data[i] = heap[params.outs[k]].data[i] ]_vars

C10_Witness ==
  /\ G = NetVecFan /\ pc = "returned" /\ mask = {0, 2}
  /\ heap[params.outs[2]].data[1] = Uninit
  /\ heap[params.outs[2]].data[0] # Uninit
  /\ heap[params.outs[1]].data[1] \in DestVectors
  /\ heap[params.outs[1]].data[0] \notin DestVectors

\* ---------------------------------------------------------------- C11
\* The inputs bound by copy_inputs_to_storage: the targets of network inputs.
BoundaryInputs(g) ==
  UNION {Range(g.targets[g.m_inputs[k]]) : k \in 1 .. Len(g.m_inputs)}
\* The inputs bound by forwarding: the targets of function-node outputs.
ForwardedInputs(g) == UNION {Range(g.targets[o]) : o \in FunctionOutputs(g)}

\* C11: on an acyclic graph whose declared network inputs are pairwise
\* distinct, no step gives a value to an input socket that already has one:
\* the "already has a value" assertion of the storage setters is never
\* reached, and a socket that has a value keeps it unchanged.
C11_WriteOnce ==
  [][(Acyclic(G) /\ NoDuplicates(G.m_inputs)) =>
       /\ "input already has a value" \notin faults'
       /\ \A s \in DOMAIN storage :
            s \in DOMAIN storage' /\ storage'[s] = storage[s]]_vars

\* A call on such a graph has returned after both copy_inputs_to_storage and
\* the forwarding steps gave values to input sockets.
C11_Witness ==
  /\ Acyclic(G) /\ NoDuplicates(G.m_inputs)
  /\ pc = "returned" /\ created
  /\ (DOMAIN storage) \cap BoundaryInputs(G) # {}
  /\ Cardinality((DOMAIN storage) \cap ForwardedInputs(G)) >= 2

\* ---------------------------------------------------------------- C13
\* The positions of the declared Vector network outputs.
VectorOutputs(g) ==
  {k \in 1 .. Len(g.m_outputs) : InputCategory(g, g.m_outputs[k]) = "Vector"}
CopiedOut == pc \in {"copied", "returned"} /\ created

\* C13 as stated: at call end the destination of every declared Vector output
\* equals, at every mask index, the collection computed for the output socket,
\* whatever the destination held before.
C13_Original ==
  CopiedOut =>
    \A k \in VectorOutputs(G) : \A i \in mask :
      heap[params.outs[k]].data[i] = heap[storage[G.m_outputs[k]].buf].data[i]

\* C13 (amended): the copy-out step appends, at every mask index, the
\* collection computed for the output socket to what the destination of a
\* declared Vector output held; no other step changes a destination.
C13_VectorOutputAppended ==
  [][\A k \in VectorOutputs(G) :
       IF pc = "loop" /\ pc' = "copied" THEN
         \A i \in mask :
           heap'[params.outs[k]].data[i] =
             heap[params.outs[k]].data[i]
               \o heap[storage[G.m_outputs[k]].buf].data[i]
       ELSE heap'[params.outs[k]] = heap[params.outs[k]]]_vars

\* A destination that held <<9>> received a non-empty computed collection.
C13_Witness ==
  /\ CopiedOut
  /\ \E k \in VectorOutputs(G) : \E i \in mask :
       /\ heap[storage[G.m_outputs[k]].buf].data[i] # <<>>
       /\ heap[params.outs[k]].data[i] =
            <<9>> \o heap[storage[G.m_outputs[k]].buf].data[i]

\* ---------------------------------------------------------------- C14
\* The step invokes node n.
Invoking(n) == invoked'[n] # invoked[n]
\* The step pops the socket on top of the work stack.
Popping ==
  /\ sockets_to_compute # <<>>
  /\ Len(sockets_to_compute') < Len(sockets_to_compute)

\* C14: a node is invoked only when each of its input sockets is computed in
\* storage and every function node that originates one of its inputs has been
\* invoked before, and an output socket leaves the work stack only in the
\* step that invokes its node.
C14_InputsBeforeInvocation ==
  [][/\ \A n \in Nodes(G) :
          Invoking(n) =>
            /\ Range(G.node[n].ins) \subseteq DOMAIN storage
            /\ \A p \in Preds(G, n) : invoked[p] >= 1
            /\ invoked'[n] = invoked[n] + 1
     /\ (Popping /\ Top \in OutputSockets(G)) =>
          /\ OutputIsFunction(G, Top)
          /\ Invoking(NodeOfOutput(G, Top))
          /\ sockets_to_compute' = SubSeq(sockets_to_compute, 1,
                                          Len(sockets_to_compute) - 1)]_vars

\* A node with two function-node predecessors has just been invoked and its
\* output socket popped.
C14_Witness ==
  /\ last.op = "invoke"
  /\ Cardinality(Preds(G, last.node)) >= 2
  /\ \A p \in Preds(G, last.node) : invoked[p] = 1
  /\ invoked[last.node] = 1
  /\ pc = "loop"

\* ---------------------------------------------------------------- C15
\* The input sockets that consume an output socket of node n.
Consumers(g, n) == UNION {Range(g.targets[o]) : o \in Range(g.node[n].outs)}
\* The consumers forwarding gives a value: those of a Single output, and of
\* a Vector output the function-node inputs and the requested outputs.
ForwardedTo(g, n) ==
  {t \in Consumers(g, n) :
     \/ InputCategory(g, t) = "Single"
     \/ InputIsFunction(g, t)
     \/ t \in Range(g.m_outputs)}

\* C15 as stated: right after a node is invoked every input socket that
\* consumes one of its output sockets is computed in storage.
C15_Original ==
  [][\A n \in Nodes(G) :
       (Invoking(n) /\ pc' = "loop") => Consumers(G, n) \subseteq DOMAIN storage']_vars

\* C15 (amended): right after a node is invoked, every consumer of its Single
\* outputs and every function-node input and requested network output that
\* consumes one of its Vector outputs is computed in storage; the other
\* consumers of its Vector outputs have no value.
C15_ForwardingCompleteness ==
  [][\A n \in Nodes(G) :
       (Invoking(n) /\ pc' = "loop") =>
         Consumers(G, n) \cap DOMAIN storage' = ForwardedTo(G, n)]_vars

\* A node whose vector output has function-node consumers, a requested output
\* and an unrequested boundary consumer has just been invoked.
C15_Witness ==
  /\ last.op = "invoke" /\ pc = "loop"
  /\ ForwardedTo(G, last.node) # Consumers(G, last.node)
  /\ Cardinality(ForwardedTo(G, last.node)) >= 3
  /\ ForwardedTo(G, last.node) \subseteq DOMAIN storage

\* ---------------------------------------------------------------- C16
\* The deep copies the engine made for mutable-vector consumers.
DeepCopies ==
  {allocs[k].buf : k \in {j \in 1 .. Len(allocs) :
     allocs[j].why.by \in {"copy_inputs_to_storage", "forward_copy"}}}

\* C16: the engine's own per-index operations touch only indices of the mask:
\* a deep copy made for a mutable-vector consumer still holds, at every index
\* outside the mask, the empty collection it was constructed with.
C16_MaskOnlyAccess ==
  \A b \in DeepCopies : \A i \in DOMAIN heap[b].data :
    i \notin mask => heap[b].data[i] = <<>>

\* ---------------------------------------------------------------- C17
\* The mutable-vector consumers of the k-th declared network input.
MutableConsumers(g, k) ==
  {t \in Range(g.targets[g.m_inputs[k]]) :
     /\ g.in_types[k] = "Vector"
     /\ InputIsFunction(g, t)
     /\ ParamTypeOfInput(g, t) = MV}
\* The buffers copy_inputs_to_storage allocated for socket t.
BoundaryCopies(t) ==
  {allocs[j].buf : j \in {i \in 1 .. Len(allocs) :
     allocs[i].why = [by |-> "copy_inputs_to_storage", socket |-> t]}}
\* The call is past copy_inputs_to_storage.
InputsCopied == created /\ pc \in {"evaluate", "loop", "copied", "returned"}

\* C17: before the first traversal step every mutable-vector consumer of a
\* Vector network input is bound to a deep copy of the caller's input that
\* was allocated for it alone and is registered with the storage, and every
\* other consumer of a network input is bound to the caller's view, with no
\* other allocation; the copy exists whether or not the consumer's node is
\* invoked later.
C17_EagerBoundaryCopy ==
  /\ pc = "evaluate" =>
       /\ \A k \in 1 .. Len(G.m_inputs) : \A t \in Range(G.targets[G.m_inputs[k]]) :
            /\ t \in DOMAIN storage
            /\ IF t \in MutableConsumers(G, k) THEN
                 /\ storage[t].kind = "vector_array"
                 /\ BoundaryCopies(t) = {storage[t].buf}
                 /\ storage[t].buf \in Range(m_vector_arrays)
                 /\ storage[t].buf # params.ins[k]
                 /\ heap[storage[t].buf].data = heap[params.ins[k]].data
                 /\ \A u \in DOMAIN storage : storage[u].buf = storage[t].buf => u = t
               ELSE storage[t].buf = params.ins[k]
       /\ Len(allocs) =
            Cardinality(UNION {MutableConsumers(G, k) : k \in 1 .. Len(G.m_inputs)})
       /\ DOMAIN storage = BoundaryInputs(G)
  /\ InputsCopied =>
       \A k \in 1 .. Len(G.m_inputs) : \A t \in MutableConsumers(G, k) :
         \E b \in BoundaryCopies(t) : b \in Range(m_vector_arrays)

\* A call has returned that never invoked the node of a mutable-vector
\* consumer of a Vector network input while a read-only consumer shared the
\* caller's view.
C17_Witness ==
  /\ pc = "returned" /\ created
  /\ \E k \in 1 .. Len(G.m_inputs) :
       /\ \E t \in MutableConsumers(G, k) :
            /\ invoked[NodeOfInput(G, t)] = 0
            /\ BoundaryCopies(t) # {}
       /\ \E t \in Range(G.targets[G.m_inputs[k]]) \ MutableConsumers(G, k) :
            storage[t].buf = params.ins[k]

\* ---------------------------------------------------------------- C18
\* The function nodes that depend on themselves.
OnCycle(g) ==
  {n \in Nodes(g) : n \in ReachUp(g, Preds(g, n), Cardinality(Nodes(g)))}
\* The subgraph demanded by the requested outputs contains a cycle.
CycleDemanded(g) == NeededNodes(g) \cap OnCycle(g) # {}

\* C18: when the demanded subgraph contains a dependency cycle, the traversal,
\* once entered, never ends: the call never gets past the loop, the work stack
\* is never empty at the loop, no node on a cycle is ever invoked, no fault is
\* reported, and the
\* stack grows up to any bound put on it.
C18_CycleDiverges ==
  /\ [](CycleDemanded(G) =>
          /\ pc \in {"call", "evaluate", "loop"} \/ (pc = "returned" /\ ~created)
          /\ pc = "loop" => sockets_to_compute # <<>>
          /\ \A n \in OnCycle(G) : invoked[n] = 0
          /\ faults = {})
  /\ (CycleDemanded(G) /\ pc = "evaluate") ~> (Len(sockets_to_compute) = MaxStack)

\* The stack of a call on a cyclic network has reached the bound after a
\* demanded node off the cycle was invoked.
C18_Witness ==
  /\ CycleDemanded(G)
  /\ pc = "loop"
  /\ Len(sockets_to_compute) = MaxStack
  /\ \E n \in NeededNodes(G) \ OnCycle(G) : invoked[n] = 1

\* ---------------------------------------------------------------- C19
\* The function-node inputs fed by a Vector origin whose parameter category
\* is neither read-only vector input nor mutable vector.
IllTyped(g) ==
  {t \in InputSockets(g) :
     /\ InputIsFunction(g, t)
     /\ OutputCategory(g, origin(g, t)) = "Vector"
     /\ ParamTypeOfInput(g, t) \notin {RV, MV}}
\* The value of the origin of input socket t has been handed to its targets.
Reached(g, t) ==
  IF OutputIsFunction(g, origin(g, t))
    THEN invoked[NodeOfOutput(g, origin(g, t))] >= 1
    ELSE created

\* C19: a function-node input of a single category fed by a Vector origin
\* never has a value in storage, and once the Vector value has been handed to
\* the targets of its origin the assertion fault is reported and the call has
\* stopped.
C19_CategoryFault ==
  \A t \in IllTyped(G) :
    /\ t \notin DOMAIN storage
    /\ Reached(G, t) => ("BLI_assert(false)" \in faults /\ pc = "aborted")

\* A function node forwarded its vector output to a single-input consumer and
\* the call stopped with the assertion fault.
C19_Witness ==
  /\ \E t \in IllTyped(G) :
       /\ OutputIsFunction(G, origin(G, t))
       /\ Reached(G, t)
       /\ t \notin DOMAIN storage
  /\ faults = {"BLI_assert(false)"}
  /\ pc = "aborted"

\* ---------------------------------------------------------------- C20
\* The buffers associated with a read-only consumer or a requested output.
Published ==
  {storage[t].buf : t \in {u \in DOMAIN storage : ReadOnlyConsumer(G, u)}}
\* The buffers that exist before the step and differ after it.
Written == {b \in 1 .. Len(heap) : heap'[b] # heap[b]}
\* The collections bound to the mutable-vector inputs of node n.
OwnMutable(n) ==
  {storage[i].buf : i \in Range(G.node[n].ins) \cap MutableInputs(G) \cap DOMAIN storage}
CallerInputs == Range(params.ins)
CallerOutputs == Range(params.outs)

\* C20: no step writes a buffer that is associated with a read-only consumer
\* or a requested output socket, nor a caller-supplied input; among the
\* buffers that exist, an invocation writes only the collections bound to the
\* mutable-vector inputs of the invoked node, the copy-out step writes only
\* the caller's destinations, and no other step writes any.
C20_ImmutableAfterPublication ==
  [][/\ Written \cap (Published \cup CallerInputs) = {}
     /\ \A n \in Nodes(G) : Invoking(n) => Written \subseteq OwnMutable(n)
     /\ (pc = "loop" /\ pc' = "copied") => Written \subseteq CallerOutputs
     /\ Written # {} => \/ \E n \in Nodes(G) : Invoking(n)
                        \/ (pc = "loop" /\ pc' = "copied")
     /\ Len(heap') >= Len(heap)]_vars

\* A node has just written in place the collection bound to its mutable-vector
\* input while read-only consumers held other published collections.
C20_Witness ==
  /\ last.op = "invoke"
  /\ \E b \in OwnMutable(last.node) :
       /\ b \notin CallerInputs
       /\ \E i \in mask : heap[b].data[i] # <<>>
       /\ \E t \in DOMAIN storage :
            ReadOnlyConsumer(G, t) /\ storage[t].buf = b
  /\ Cardinality(Published) >= 3

\* ---------------------------------------------------------------- C12
\* The value of output socket o at index i that the network denotes for the
\* inputs pins of one call.
RECURSIVE ValueIn(_, _, _, _)
ValueIn(g, pins, o, i) ==
  IF OutputIsFunction(g, o) THEN
    LET nd == g.node[NodeOfOutput(g, o)]
    IN FnApply(nd.fun,
               [j \in 1 .. Len(nd.ins) |-> ValueIn(g, pins, origin(g, nd.ins[j]), i)])
         [first_index(nd.outs, o)]
  ELSE heap[pins[first_index(g.m_inputs, o)]].data[i]

\* The acyclic networks, and the demanded nodes of every network.
AcyclicNetworks == {k \in 1 .. Len(AllNetworks) : Acyclic(AllNetworks[k])}
NeededIn == [k \in 1 .. Len(AllNetworks) |-> NeededNodes(AllNetworks[k])]

\* The buffers call c allocated, and the buffers it may refer to.
AllocatedBy(c) == {c.allocs[k].buf : k \in 1 .. Len(c.allocs)}
OwnBuffers(c) == AllocatedBy(c) \cup Range(c.params.ins) \cup Range(c.params.outs)

\* Call c refers to its own buffers only, and behaves as a call that runs
\* alone: on return each demanded node was invoked once and no other node,
\* and every destination holds the value the network denotes for the inputs
\* of c at the indices of its mask and is untouched elsewhere.
AsAlone(c) ==
  /\ \A t \in DOMAIN c.storage : c.storage[t].buf \in OwnBuffers(c)
  /\ Range(c.m_arrays) \cup Range(c.m_vector_arrays) \subseteq AllocatedBy(c)
  /\ c.faults = {}
  /\ net \in AcyclicNetworks =>
       /\ \A n \in DOMAIN c.invoked :
            c.invoked[n] > 0 => (n \in NeededIn[net] /\ c.invoked[n] = 1)
       /\ c.pc = "returned" =>
            /\ \A n \in NeededIn[net] : c.invoked[n] = (IF c.mask = {} THEN 0 ELSE 1)
            /\ \A k \in 1 .. Len(G.m_outputs) : \A i \in Indices :
                 heap[c.params.outs[k]].data[i] =
                   IF i \in c.mask
                     THEN ValueIn(G, c.params.ins, origin(G, G.m_outputs[k]), i)
                   ELSE IF InputCategory(G, G.m_outputs[k]) = "Single" THEN Uninit
                   ELSE <<>>

\* C12: of two calls on the same network whose steps interleave in any order,
\* each refers only to buffers of its own, the two allocate disjoint buffers,
\* and each invokes the same nodes and produces the same output values as a
\* call that runs alone.
C12_CallIsolation ==
  /\ AsAlone(Locals)
  /\ AsAlone(peer)
  /\ OwnBuffers(Locals) \cap OwnBuffers(peer) = {}

\* Both calls have returned after their steps interleaved: each was suspended
\* inside its traversal, and both invoked nodes on overlapping masks.
C12_Witness ==
  /\ pc = "returned" /\ peer.pc = "returned"
  /\ created /\ peer.created
  /\ mask \cap peer.mask # {}
  /\ \E n \in Nodes(G) : invoked[n] = 1 /\ peer.invoked[n] = 1
  /\ \E a \in AllocatedBy(Locals), b \in AllocatedBy(peer), c \in AllocatedBy(Locals) :
       a < b /\ b < c

====
